---------------------------- MODULE Spec2Model ----------------------------
(***************************************************************************)
(* vault-warden: one binary, two modes.                                    *)
(*   unlock : runUnlock, a one-shot unseal pass against the Vault server.  *)
(*   audit  : runAudit, a loop that follows the audit log through the tail *)
(*            library and reports privileged requests to a webhook.        *)
(* The model follows src/main.go lines 1-301 (the current version).        *)
(***************************************************************************)
EXTENDS Integers, Sequences, FiniteSets, TLC

(***************************************************************************)
(* Bounds of the model.                                                    *)
(***************************************************************************)
MaxKeys == 3
MaxPathLen == 5
MaxWrites == 2
MaxRotations == 1
MaxHistory == 1

(***************************************************************************)
(* Program constants.                                                      *)
(***************************************************************************)
ColorUnsealed == 3066993
ColorAlert == 15158332
ColorActive == 3447003
ColorStopped == 9807270
StatusOK == 200
StatusNoContent == 204

TitleUnsealed == "Vault Unsealed"
TitleAlert == "SECURITY ALERT: Privileged Access"
TitleActive == "Vault Warden Active"
TitleStopped == "Vault Warden Stopped"
DescUnsealed == <<"Vault has been successfully unsealed.">>
DescActive == <<"Monitoring audit logs for Starnix cluster...">>
DescStopped == <<"Audit monitoring has been stopped.">>

(***************************************************************************)
(* Strings.  A request path is a sequence of path segments, the "/" between*)
(* two neighbours implied; strings.Contains is containment of a contiguous *)
(* run of segments.  "Sign" is there so that case matters.                 *)
(***************************************************************************)
Segments == {"sign", "Sign", "root", "database", "creds", "admin", "sys", "unseal"}
Names == {"", "alice"}
Errors == {"", "permission denied"}

PatSignRoot == <<"sign", "root">>
PatDbAdmin == <<"database", "creds", "admin">>
PatUnseal == <<"sys", "unseal">>

Contains(s, pat) ==
    \E k \in 0..(Len(s) - Len(pat)) :
        \A j \in 1..Len(pat) : s[k + j] = pat[j]

SeqsUpTo(S, n) == UNION {[1..m -> S] : m \in 0..n}

Paths == SeqsUpTo(Segments, MaxPathLen)

(***************************************************************************)
(* One line of the audit log.  kind "object" is a JSON object with the     *)
(* three fields (an absent field is the empty string, as Unmarshal leaves  *)
(* it); "garbage" is text that is not JSON; "mistyped" is JSON whose       *)
(* "error" field is a number, which Unmarshal rejects as well.             *)
(***************************************************************************)
ObjectLine(p, n, e) == [kind |-> "object", path |-> p, name |-> n, error |-> e]
GarbageLine == [kind |-> "garbage", path |-> <<>>, name |-> "", error |-> ""]
MistypedLine == [kind |-> "mistyped", path |-> PatSignRoot, name |-> "alice", error |-> ""]

\* json.Unmarshal([]byte(line), &entry)
Unmarshal(line) ==
    IF line.kind = "object"
    THEN [err |-> FALSE, entry |-> [path |-> line.path, name |-> line.name, error |-> line.error]]
    ELSE IF line.kind = "mistyped"
    \* an UnmarshalTypeError: the fields that do fit are still filled in
    THEN [err |-> TRUE, entry |-> [path |-> line.path, name |-> line.name, error |-> ""]]
    ELSE [err |-> TRUE, entry |-> [path |-> <<>>, name |-> "", error |-> ""]]

(***************************************************************************)
(* sendDiscord.  A delivery is a POST whose outcome the webhook decides:   *)
(* a transport failure, or a response with a status code.                  *)
(***************************************************************************)
Deliveries ==
    {[transport |-> FALSE, code |-> 0]}
        \cup {[transport |-> TRUE, code |-> c] : c \in {StatusOK, StatusNoContent, 500}}

Embed(title, desc, color) == [title |-> title, desc |-> desc, color |-> color]

\* The error sendDiscord returns for a delivery outcome ("nil" for none).
sendDiscordErr(d) ==
    IF ~d.transport THEN "post failed"
    ELSE IF d.code # StatusNoContent /\ d.code # StatusOK THEN "discord returned status"
    ELSE "nil"

\* fmt.Sprintf("**User:** %s\n**Resource:** `%s`", displayName, path)
AlertDesc(name, path) == <<"User", name, "Resource", path>>


(***************************************************************************)
(* Configuration file, command line and server responses.                  *)
(***************************************************************************)
\* What the YAML file holds: whether it can be opened and decoded, and which
\* fields are non-empty.  nKeys is len(cfg.UnsealKeys).
Configs ==
    [file : {"ok"}, address : BOOLEAN, nKeys : 0..MaxKeys, webhook : BOOLEAN, auditLog : BOOLEAN]
        \cup [file : {"missing", "undecodable"}, address : {FALSE}, nKeys : {0},
              webhook : {FALSE}, auditLog : {FALSE}]

\* flag.Arg(0); "" stands for no argument at all.
Commands == {"", "unlock", "audit", "rotate"}

readConfig(c) ==
    IF c.file = "missing" THEN "open config"
    ELSE IF c.file = "undecodable" THEN "decode config"
    ELSE IF ~c.address THEN "address is required"
    ELSE IF c.nKeys = 0 THEN "unseal_keys is required"
    ELSE IF ~c.webhook THEN "webhook_url is required"
    ELSE "nil"

\* A response of the Vault server: the round trip may fail; otherwise it has
\* a status code and a body.  "no_field" is a JSON object without "sealed".
Bodies == {"sealed_true", "sealed_false", "no_field", "garbage"}
HttpFailure == [transport |-> FALSE, code |-> 0, body |-> "garbage"]
HealthResponses == {HttpFailure} \cup [transport : {TRUE}, code : {200, 503}, body : Bodies]
UnsealResponses == {HttpFailure} \cup [transport : {TRUE}, code : {200}, body : Bodies]

\* json.Unmarshal(body, &status) into VaultStatus
ParseStatus(body) ==
    IF body = "garbage" THEN [err |-> TRUE, sealed |-> FALSE]
    ELSE [err |-> FALSE, sealed |-> (body = "sealed_true")]

(***************************************************************************)
(* The lines the log writer appends in the full model, and the lines the   *)
(* log may hold before the monitor starts.                                 *)
(***************************************************************************)
BothLine == ObjectLine(<<"sign", "root", "sys", "unseal">>, "alice", "")
LogLines == {GarbageLine, MistypedLine, BothLine}
HistoryLines == {ObjectLine(PatDbAdmin, "alice", "")}

VARIABLES
    args,           \* flag.Arg(0)
    cfg,            \* the configuration file
    pc,             \* where the process is
    exitCode,       \* -1 while running, else the exit status
    cmdErr,         \* the error runUnlock / runAudit returned, "nil" for none
    mainMsg,        \* what main printed before os.Exit(1), "" for nothing
    health,         \* the health response runUnlock read, if any
    submitted,      \* indices of the keys PUT to /v1/sys/unseal, in order
    responses,      \* the responses to those submissions, in order
    notifications,  \* the embeds handed to sendDiscord, in order
    notifyErr,      \* what the last sendDiscord call returned ("none" before any)
    disk,           \* the files ever created at the audit log path: inode -> lines
    path,           \* the inode now at the audit log path, 0 for none
    histLen,        \* how many lines the log held when the process started
    tail,           \* the tail goroutine: its state, open file and cursor
    lineCh,         \* t.Lines: the line the tail goroutine is blocked sending
    sigChan,        \* the number of signals buffered in sigChan (capacity 1)
    delivered       \* the lines the audit loop received, as <<inode, index>>

vars ==
    <<args, cfg, pc, exitCode, cmdErr, mainMsg, health, submitted, responses,
      notifications, notifyErr, disk, path, histLen, tail, lineCh, sigChan, delivered>>

unlockVars == <<health, submitted, responses>>
auditVars == <<disk, path, histLen, tail, lineCh, sigChan, delivered>>
mainVars == <<args, cfg>>

NoTail == [state |-> "none", file |-> 0, offset |-> 0, startFile |-> 0, startOffset |-> 0]
NoHealth == [transport |-> FALSE, code |-> -1, body |-> "none"]

Init ==
    /\ args \in Commands
    /\ cfg \in Configs
    \* the unseal keys play no part in audit mode
    /\ args = "audit" => cfg.nKeys <= 1
    /\ pc = "main"
    /\ exitCode = -1
    /\ cmdErr = "nil"
    /\ mainMsg = ""
    /\ health = NoHealth
    /\ submitted = <<>>
    /\ responses = <<>>
    /\ notifications = <<>>
    /\ notifyErr = "none"
    /\ \E h \in SeqsUpTo(HistoryLines, MaxHistory) :
          \/ /\ args = "audit"
             /\ disk = <<h>>
             /\ path = 1
             /\ histLen = Len(h)
          \/ /\ h = <<>>
             /\ disk = <<>>
             /\ path = 0
             /\ histLen = 0
    /\ tail = NoTail
    /\ lineCh = <<>>
    /\ sigChan = 0
    /\ delivered = <<>>

(***************************************************************************)
(* main                                                                    *)
(***************************************************************************)
Exit(code, msg, err) ==
    /\ pc' = "exited"
    /\ exitCode' = code
    /\ mainMsg' = msg
    /\ cmdErr' = err

\* Return with the test of lines 297-300 left out: the error of the command
\* is dropped and main ends normally.
ReturnIgnoresErr(err) == Exit(0, "", "nil")

\* What main does once runUnlock / runAudit has returned err.
Return(err) ==
    IF err # "nil" THEN Exit(1, "Error", err) ELSE Exit(0, "", "nil")

Main ==
    /\ pc = "main"
    /\ IF args = "" THEN Exit(1, "Usage", "nil")
       ELSE IF readConfig(cfg) # "nil" THEN Exit(1, "Config error", "nil")
       ELSE IF args = "unlock"
            THEN pc' = "runUnlock" /\ UNCHANGED <<exitCode, mainMsg, cmdErr>>
       ELSE IF args = "audit"
            THEN pc' = "runAudit" /\ UNCHANGED <<exitCode, mainMsg, cmdErr>>
       ELSE Exit(1, "Unknown command", "nil")
    /\ UNCHANGED <<mainVars, unlockVars, auditVars, notifications, notifyErr>>

(***************************************************************************)
(* Notifier: one sendDiscord call with delivery outcome d.                 *)
(***************************************************************************)
Notify(embeds, ds) ==
    /\ notifications' = notifications \o embeds
    /\ notifyErr' = IF embeds = <<>> THEN notifyErr ELSE sendDiscordErr(ds[Len(embeds)])

(***************************************************************************)
(* runUnlock                                                               *)
(***************************************************************************)
\* CheckHealth with the test of line 147 dropped: the key loop is entered
\* whatever the health status says.
CheckHealthIgnoresStatus ==
    /\ pc = "runUnlock"
    /\ \E r \in HealthResponses :
          /\ health' = r
          /\ IF ~r.transport THEN Return("health check failed")
             ELSE IF ParseStatus(r.body).err THEN Return("parse health response")
             ELSE pc' = "unsealLoop" /\ UNCHANGED <<exitCode, mainMsg, cmdErr>>
    /\ UNCHANGED <<mainVars, submitted, responses, auditVars, notifications, notifyErr>>

\* CheckHealth with a status code test added after client.Do: any answer
\* other than 200 is taken as a failed health check.
CheckHealthRejectsNon200 ==
    /\ pc = "runUnlock"
    /\ \E r \in HealthResponses :
          /\ health' = r
          /\ IF ~r.transport \/ r.code # StatusOK THEN Return("health check failed")
             ELSE IF ParseStatus(r.body).err THEN Return("parse health response")
             ELSE IF ~ParseStatus(r.body).sealed THEN Return("nil")
             ELSE pc' = "unsealLoop" /\ UNCHANGED <<exitCode, mainMsg, cmdErr>>
    /\ UNCHANGED <<mainVars, submitted, responses, auditVars, notifications, notifyErr>>

\* Lines 121-152: the health GET up to the start of the key loop.
CheckHealth ==
    /\ pc = "runUnlock"
    /\ \E r \in HealthResponses :
          /\ health' = r
          /\ IF ~r.transport THEN Return("health check failed")
             ELSE IF ParseStatus(r.body).err THEN Return("parse health response")
             ELSE IF ~ParseStatus(r.body).sealed THEN Return("nil")
             ELSE pc' = "unsealLoop" /\ UNCHANGED <<exitCode, mainMsg, cmdErr>>
    /\ UNCHANGED <<mainVars, submitted, responses, auditVars, notifications, notifyErr>>

\* SubmitKey without the return of line 187: the notification is sent and
\* the loop goes on to the next key.
SubmitKeyNoStop ==
    /\ pc = "unsealLoop"
    /\ LET i == Len(submitted) + 1 IN
       \E r \in UnsealResponses, d \in Deliveries :
          /\ submitted' = Append(submitted, i)
          /\ responses' = Append(responses, r)
          /\ IF ~r.transport
             THEN Return("unseal request failed") /\ UNCHANGED <<notifications, notifyErr>>
             ELSE IF ParseStatus(r.body).err
             THEN Return("parse unseal response") /\ UNCHANGED <<notifications, notifyErr>>
             ELSE /\ IF ~ParseStatus(r.body).sealed
                     THEN Notify(<<Embed(TitleUnsealed, DescUnsealed, ColorUnsealed)>>, <<d>>)
                     ELSE UNCHANGED <<notifications, notifyErr>>
                  /\ IF i = cfg.nKeys
                     THEN Return(IF ParseStatus(r.body).sealed
                                 THEN "vault still sealed after providing all keys"
                                 ELSE "nil")
                     ELSE UNCHANGED <<pc, exitCode, mainMsg, cmdErr>>
    /\ UNCHANGED <<mainVars, health, auditVars>>

\* SubmitKey with the loop one key short: the pass gives up before the last
\* configured key.
SubmitKeyOneShort ==
    /\ pc = "unsealLoop"
    /\ LET i == Len(submitted) + 1 IN
       \E r \in UnsealResponses, d \in Deliveries :
          /\ submitted' = Append(submitted, i)
          /\ responses' = Append(responses, r)
          /\ IF ~r.transport
             THEN Return("unseal request failed") /\ UNCHANGED <<notifications, notifyErr>>
             ELSE IF ParseStatus(r.body).err
             THEN Return("parse unseal response") /\ UNCHANGED <<notifications, notifyErr>>
             ELSE IF ~ParseStatus(r.body).sealed
             THEN /\ Notify(<<Embed(TitleUnsealed, DescUnsealed, ColorUnsealed)>>, <<d>>)
                  /\ Return("nil")
             ELSE IF i >= cfg.nKeys - 1
             THEN Return("vault still sealed after providing all keys")
                  /\ UNCHANGED <<notifications, notifyErr>>
             ELSE UNCHANGED <<pc, exitCode, mainMsg, cmdErr, notifications, notifyErr>>
    /\ UNCHANGED <<mainVars, health, auditVars>>

\* SubmitKey returning what sendDiscord returned instead of nil.
SubmitKeyReturnsNotifyErr ==
    /\ pc = "unsealLoop"
    /\ LET i == Len(submitted) + 1 IN
       \E r \in UnsealResponses, d \in Deliveries :
          /\ submitted' = Append(submitted, i)
          /\ responses' = Append(responses, r)
          /\ IF ~r.transport
             THEN Return("unseal request failed") /\ UNCHANGED <<notifications, notifyErr>>
             ELSE IF ParseStatus(r.body).err
             THEN Return("parse unseal response") /\ UNCHANGED <<notifications, notifyErr>>
             ELSE IF ~ParseStatus(r.body).sealed
             THEN /\ Notify(<<Embed(TitleUnsealed, DescUnsealed, ColorUnsealed)>>, <<d>>)
                  /\ Return(sendDiscordErr(d))
             ELSE IF i = cfg.nKeys
             THEN Return("vault still sealed after providing all keys")
                  /\ UNCHANGED <<notifications, notifyErr>>
             ELSE UNCHANGED <<pc, exitCode, mainMsg, cmdErr, notifications, notifyErr>>
    /\ UNCHANGED <<mainVars, health, auditVars>>

\* SubmitKey with the error returns of lines 168-180 replaced by continue: a
\* failed submission is skipped and the next key is tried.
SubmitKeyContinuesOnError ==
    /\ pc = "unsealLoop"
    /\ LET i == Len(submitted) + 1 IN
       \E r \in UnsealResponses, d \in Deliveries :
          /\ submitted' = Append(submitted, i)
          /\ responses' = Append(responses, r)
          /\ IF r.transport /\ ~ParseStatus(r.body).err /\ ~ParseStatus(r.body).sealed
             THEN /\ Notify(<<Embed(TitleUnsealed, DescUnsealed, ColorUnsealed)>>, <<d>>)
                  /\ Return("nil")
             ELSE IF i = cfg.nKeys
             THEN Return("vault still sealed after providing all keys")
                  /\ UNCHANGED <<notifications, notifyErr>>
             ELSE UNCHANGED <<pc, exitCode, mainMsg, cmdErr, notifications, notifyErr>>
    /\ UNCHANGED <<mainVars, health, auditVars>>

\* Lines 155-193: one iteration of the key loop, and the return after the
\* last one.
SubmitKey ==
    /\ pc = "unsealLoop"
    /\ LET i == Len(submitted) + 1 IN
       \E r \in UnsealResponses, d \in Deliveries :
          /\ submitted' = Append(submitted, i)
          /\ responses' = Append(responses, r)
          /\ IF ~r.transport
             THEN Return("unseal request failed") /\ UNCHANGED <<notifications, notifyErr>>
             ELSE IF ParseStatus(r.body).err
             THEN Return("parse unseal response") /\ UNCHANGED <<notifications, notifyErr>>
             ELSE IF ~ParseStatus(r.body).sealed
             THEN /\ Notify(<<Embed(TitleUnsealed, DescUnsealed, ColorUnsealed)>>, <<d>>)
                  /\ Return("nil")
             ELSE IF i = cfg.nKeys
             THEN Return("vault still sealed after providing all keys")
                  /\ UNCHANGED <<notifications, notifyErr>>
             ELSE UNCHANGED <<pc, exitCode, mainMsg, cmdErr, notifications, notifyErr>>
    /\ UNCHANGED <<mainVars, health, auditVars>>

(***************************************************************************)
(* processAuditLine: the embeds it hands to sendDiscord, in order.         *)
(***************************************************************************)
\* processAuditLine with the second test of line 206 missing.
processAuditLineSignRootOnly(line) ==
    LET u == Unmarshal(line)
        entry == u.entry
        alert ==
            IF Contains(entry.path, PatSignRoot)
            THEN <<Embed(TitleAlert, AlertDesc(entry.name, entry.path), ColorAlert)>>
            ELSE <<>>
        unseal ==
            IF Contains(entry.path, PatUnseal) /\ entry.error = ""
            THEN <<Embed(TitleUnsealed, DescUnsealed, ColorUnsealed)>>
            ELSE <<>>
    IN  IF u.err THEN <<>> ELSE alert \o unseal

\* processAuditLine with the error test of line 214 missing.
processAuditLineIgnoresError(line) ==
    LET u == Unmarshal(line)
        entry == u.entry
        alert ==
            IF Contains(entry.path, PatSignRoot) \/ Contains(entry.path, PatDbAdmin)
            THEN <<Embed(TitleAlert, AlertDesc(entry.name, entry.path), ColorAlert)>>
            ELSE <<>>
        unseal ==
            IF Contains(entry.path, PatUnseal)
            THEN <<Embed(TitleUnsealed, DescUnsealed, ColorUnsealed)>>
            ELSE <<>>
    IN  IF u.err THEN <<>> ELSE alert \o unseal

\* processAuditLine with the return of lines 200-202 missing: the entry is
\* classified whether or not the line parsed.
processAuditLineNoParseCheck(line) ==
    LET u == Unmarshal(line)
        entry == u.entry
        alert ==
            IF Contains(entry.path, PatSignRoot) \/ Contains(entry.path, PatDbAdmin)
            THEN <<Embed(TitleAlert, AlertDesc(entry.name, entry.path), ColorAlert)>>
            ELSE <<>>
        unseal ==
            IF Contains(entry.path, PatUnseal) /\ entry.error = ""
            THEN <<Embed(TitleUnsealed, DescUnsealed, ColorUnsealed)>>
            ELSE <<>>
    IN  alert \o unseal

\* processAuditLine with the second rule in an else branch of the first: a
\* line matching the privileged rule is not tested for a successful unseal.
processAuditLineFirstMatch(line) ==
    LET u == Unmarshal(line)
        entry == u.entry
        alert ==
            IF Contains(entry.path, PatSignRoot) \/ Contains(entry.path, PatDbAdmin)
            THEN <<Embed(TitleAlert, AlertDesc(entry.name, entry.path), ColorAlert)>>
            ELSE <<>>
        unseal ==
            IF Contains(entry.path, PatUnseal) /\ entry.error = ""
            THEN <<Embed(TitleUnsealed, DescUnsealed, ColorUnsealed)>>
            ELSE <<>>
    IN  IF u.err THEN <<>> ELSE IF alert # <<>> THEN alert ELSE unseal

processAuditLine(line) ==
    LET u == Unmarshal(line)
        entry == u.entry
        alert ==
            IF Contains(entry.path, PatSignRoot) \/ Contains(entry.path, PatDbAdmin)
            THEN <<Embed(TitleAlert, AlertDesc(entry.name, entry.path), ColorAlert)>>
            ELSE <<>>
        unseal ==
            IF Contains(entry.path, PatUnseal) /\ entry.error = ""
            THEN <<Embed(TitleUnsealed, DescUnsealed, ColorUnsealed)>>
            ELSE <<>>
    IN  IF u.err THEN <<>> ELSE alert \o unseal

(***************************************************************************)
(* runAudit                                                                *)
(***************************************************************************)
\* RunAuditStart without the os.Stat test of lines 227-229: the tail is
\* started on whatever the path holds.
RunAuditStartNoStat ==
    /\ pc = "runAudit"
    /\ \E d \in Deliveries : Notify(<<Embed(TitleActive, DescActive, ColorActive)>>, <<d>>)
    /\ pc' = "running"
    /\ tail' = [NoTail EXCEPT !.state = "opening"]
    /\ UNCHANGED <<exitCode, mainMsg, cmdErr>>
    /\ UNCHANGED <<mainVars, unlockVars, disk, path, histLen, lineCh, sigChan, delivered>>

\* Lines 222-246: the "active" notification, os.Stat, tail.TailFile (which
\* starts the tail goroutine and returns) and signal.Notify.
RunAuditStart ==
    /\ pc = "runAudit"
    /\ \E d \in Deliveries : Notify(<<Embed(TitleActive, DescActive, ColorActive)>>, <<d>>)
    /\ IF ~cfg.auditLog \/ path = 0
       THEN Return("audit log not accessible") /\ UNCHANGED tail
       ELSE /\ pc' = "running"
            /\ tail' = [NoTail EXCEPT !.state = "opening"]
            /\ UNCHANGED <<exitCode, mainMsg, cmdErr>>
    /\ UNCHANGED <<mainVars, unlockVars, disk, path, histLen, lineCh, sigChan, delivered>>

\* Lines 250-255: select took a line from t.Lines. A receive from t.Lines
\* closed by an ended tail goroutine yields a nil *tail.Line, and line.Err
\* on line 251 then panics (exit status 2 of the Go runtime).
ReceiveLine ==
    /\ pc = "running"
    /\ \/ /\ lineCh # <<>>
          /\ LET item == Head(lineCh) IN
             /\ lineCh' = <<>>
             /\ delivered' = Append(delivered, <<item.file, item.idx>>)
             /\ IF item.err
                THEN UNCHANGED <<notifications, notifyErr>>
                ELSE LET embeds == processAuditLine(disk[item.file][item.idx]) IN
                     \E ds \in [1..Len(embeds) -> Deliveries] : Notify(embeds, ds)
          /\ UNCHANGED <<pc, exitCode, mainMsg, cmdErr>>
       \/ /\ lineCh = <<>>
          /\ tail.state = "ended"
          /\ Exit(2, "panic", "nil")
          /\ UNCHANGED <<lineCh, delivered, notifications, notifyErr>>
    /\ UNCHANGED <<mainVars, unlockVars, disk, path, histLen, tail, sigChan>>

\* ReceiveSignal without the deferred t.Stop() of line 242: the tail goroutine
\* and its open file are left as they are.
ReceiveSignalKeepsTail ==
    /\ pc = "running"
    /\ sigChan > 0
    /\ sigChan' = sigChan - 1
    /\ \E d \in Deliveries : Notify(<<Embed(TitleStopped, DescStopped, ColorStopped)>>, <<d>>)
    /\ Return("nil")
    /\ UNCHANGED <<mainVars, unlockVars, disk, path, histLen, tail, lineCh, delivered>>

\* ReceiveSignal without the return of line 261: the loop goes on after the
\* "stopped" notification.
ReceiveSignalNoReturn ==
    /\ pc = "running"
    /\ sigChan > 0
    /\ sigChan' = sigChan - 1
    /\ \E d \in Deliveries : Notify(<<Embed(TitleStopped, DescStopped, ColorStopped)>>, <<d>>)
    /\ UNCHANGED <<mainVars, unlockVars, pc, exitCode, mainMsg, cmdErr,
                   disk, path, histLen, tail, lineCh, delivered>>

\* Lines 257-261 and the deferred t.Stop() of line 242: select took the
\* signal.
ReceiveSignal ==
    /\ pc = "running"
    /\ sigChan > 0
    /\ sigChan' = sigChan - 1
    /\ \E d \in Deliveries : Notify(<<Embed(TitleStopped, DescStopped, ColorStopped)>>, <<d>>)
    /\ tail' = [tail EXCEPT !.state = "stopped", !.file = 0]
    /\ Return("nil")
    /\ UNCHANGED <<mainVars, unlockVars, disk, path, histLen, lineCh, delivered>>

(***************************************************************************)
(* The tail goroutine, as tail.TailFile is configured on lines 232-238:    *)
(* Location SeekEnd (start at the end of the file), Follow (wait at end of *)
(* file instead of stopping), Poll (changes are noticed by polling the     *)
(* path) and ReOpen (a renamed or removed file is closed and the path is   *)
(* opened again, from its first line).                                     *)
(***************************************************************************)
\* TailOpen with Location left out: the file is read from its first line.
TailOpenFromStart ==
    /\ pc = "running"
    /\ tail.state = "opening"
    /\ path # 0
    /\ tail' = [state |-> "reading", file |-> path, offset |-> 0,
                startFile |-> path, startOffset |-> 0]
    /\ UNCHANGED <<mainVars, unlockVars, pc, exitCode, mainMsg, cmdErr, notifications,
                   notifyErr, disk, path, histLen, lineCh, sigChan, delivered>>

TailOpen ==
    /\ pc = "running"
    /\ tail.state = "opening"
    /\ path # 0
    /\ tail' = [state |-> "reading", file |-> path, offset |-> Len(disk[path]),
                startFile |-> path, startOffset |-> Len(disk[path])]
    /\ UNCHANGED <<mainVars, unlockVars, pc, exitCode, mainMsg, cmdErr, notifications,
                   notifyErr, disk, path, histLen, lineCh, sigChan, delivered>>

\* A complete line is at the cursor: send it on t.Lines (unbuffered, so the
\* goroutine holds it until the loop receives it).
TailReadLine ==
    /\ pc = "running"
    /\ tail.state = "reading"
    /\ lineCh = <<>>
    /\ tail.offset < Len(disk[tail.file])
    /\ lineCh' = <<[file |-> tail.file, idx |-> tail.offset + 1, err |-> FALSE]>>
    /\ tail' = [tail EXCEPT !.offset = @ + 1]
    /\ UNCHANGED <<mainVars, unlockVars, pc, exitCode, mainMsg, cmdErr, notifications,
                   notifyErr, disk, path, histLen, sigChan, delivered>>

\* TailEOF with Follow left out of the tail.Config: at the end of the file
\* the goroutine closes the file and t.Lines and returns.
TailEOFStops ==
    /\ pc = "running"
    /\ tail.state = "reading"
    /\ lineCh = <<>>
    /\ tail.offset = Len(disk[tail.file])
    /\ tail' = [tail EXCEPT !.state = "ended", !.file = 0]
    /\ UNCHANGED <<mainVars, unlockVars, pc, exitCode, mainMsg, cmdErr, notifications,
                   notifyErr, disk, path, histLen, lineCh, sigChan, delivered>>

\* End of file: wait for the poller to report a change.
TailEOF ==
    /\ pc = "running"
    /\ tail.state = "reading"
    /\ lineCh = <<>>
    /\ tail.offset = Len(disk[tail.file])
    /\ tail' = [tail EXCEPT !.state = "waiting"]
    /\ UNCHANGED <<mainVars, unlockVars, pc, exitCode, mainMsg, cmdErr, notifications,
                   notifyErr, disk, path, histLen, lineCh, sigChan, delivered>>

\* The poller stats the path: gone, or another file than the open one, means
\* the file was moved or deleted, and with ReOpen the open file is closed,
\* whatever is left unread in it, and the path opened again; the same file
\* grown means there is more to read.
TailPoll ==
    /\ pc = "running"
    /\ tail.state = "waiting"
    /\ \/ /\ path = 0
          /\ tail' = [tail EXCEPT !.state = "reopening", !.file = 0, !.offset = 0]
       \/ /\ path # 0
          /\ path # tail.file
          /\ tail' = [tail EXCEPT !.state = "reading", !.file = path, !.offset = 0]
       \/ /\ path = tail.file
          /\ tail.offset < Len(disk[tail.file])
          /\ tail' = [tail EXCEPT !.state = "reading"]
    /\ UNCHANGED <<mainVars, unlockVars, pc, exitCode, mainMsg, cmdErr, notifications,
                   notifyErr, disk, path, histLen, lineCh, sigChan, delivered>>

\* reopen() waiting for the path to exist again.
TailReopen ==
    /\ pc = "running"
    /\ tail.state = "reopening"
    /\ path # 0
    /\ tail' = [tail EXCEPT !.state = "reading", !.file = path, !.offset = 0]
    /\ UNCHANGED <<mainVars, unlockVars, pc, exitCode, mainMsg, cmdErr, notifications,
                   notifyErr, disk, path, histLen, lineCh, sigChan, delivered>>

(***************************************************************************)
(* The environment of the monitor: the signal, the log writer and the log  *)
(* rotation (a rename followed by the creation of a new file).             *)
(***************************************************************************)
Written == LET n[k \in 0..Len(disk)] == IF k = 0 THEN 0 ELSE n[k - 1] + Len(disk[k])
           IN  n[Len(disk)] - histLen

\* SIGINT / SIGTERM after signal.Notify: buffered unless the buffer is full.
Signal ==
    /\ pc = "running"
    /\ sigChan = 0
    /\ sigChan' = 1
    /\ UNCHANGED <<mainVars, unlockVars, pc, exitCode, mainMsg, cmdErr, notifications,
                   notifyErr, disk, path, histLen, tail, lineCh, delivered>>

AppendLine ==
    /\ pc = "running"
    /\ path # 0
    /\ Written < MaxWrites
    /\ \E l \in LogLines : disk' = [disk EXCEPT ![path] = Append(@, l)]
    /\ UNCHANGED <<mainVars, unlockVars, pc, exitCode, mainMsg, cmdErr, notifications,
                   notifyErr, path, histLen, tail, lineCh, sigChan, delivered>>

RotateRename ==
    /\ pc = "running"
    /\ path # 0
    /\ Len(disk) <= MaxRotations
    /\ path' = 0
    /\ UNCHANGED <<mainVars, unlockVars, pc, exitCode, mainMsg, cmdErr, notifications,
                   notifyErr, disk, histLen, tail, lineCh, sigChan, delivered>>

RotateCreate ==
    /\ pc = "running"
    /\ path = 0
    /\ disk' = Append(disk, <<>>)
    /\ path' = Len(disk) + 1
    /\ UNCHANGED <<mainVars, unlockVars, pc, exitCode, mainMsg, cmdErr, notifications,
                   notifyErr, histLen, tail, lineCh, sigChan, delivered>>

Next ==
    \/ Main
    \/ CheckHealth
    \/ SubmitKey
    \/ RunAuditStart
    \/ ReceiveLine
    \/ ReceiveSignal
    \/ TailOpen
    \/ TailReadLine
    \/ TailEOF
    \/ TailPoll
    \/ TailReopen
    \/ Signal
    \/ AppendLine
    \/ RotateRename
    \/ RotateCreate

Spec == Init /\ [][Next]_vars

(***************************************************************************)
(* Properties of runUnlock.                                                *)
(***************************************************************************)
\* The initial health check was read and reports sealed=true.
HealthSealed ==
    /\ health.transport
    /\ ~ParseStatus(health.body).err
    /\ ParseStatus(health.body).sealed

\* The initial health check was read and reports sealed=false.
HealthUnsealed ==
    /\ health.transport
    /\ ~ParseStatus(health.body).err
    /\ ~ParseStatus(health.body).sealed

\* The k-th submission came back as a status with sealed=false / sealed=true.
ReturnedUnsealed(k) ==
    /\ responses[k].transport
    /\ ~ParseStatus(responses[k].body).err
    /\ ~ParseStatus(responses[k].body).sealed

ReturnedSealed(k) ==
    /\ responses[k].transport
    /\ ~ParseStatus(responses[k].body).err
    /\ ParseStatus(responses[k].body).sealed

UnsealedEmbed == [title |-> "Vault Unsealed",
                  desc |-> <<"Vault has been successfully unsealed.">>,
                  color |-> 3066993]

\* C1: after a health check reporting sealed=true, the keys are submitted in
\* configured order, each at most once, and nothing is submitted after the
\* first submission that returns sealed=false; when that is the k-th
\* submission, exactly k keys have been submitted, exactly one "Vault
\* Unsealed" notification has been sent and runUnlock has returned success.
KeySubmissionProtocol ==
    HealthSealed =>
        /\ Len(submitted) <= cfg.nKeys
        /\ \A k \in 1..Len(submitted) : submitted[k] = k
        /\ Len(responses) = Len(submitted)
        /\ \A k \in 1..(Len(responses) - 1) : ~ReturnedUnsealed(k)
        /\ \A k \in 1..Len(responses) :
              ReturnedUnsealed(k) =>
                  /\ Len(submitted) = k
                  /\ notifications = <<UnsealedEmbed>>
                  /\ pc = "exited"
                  /\ cmdErr = "nil"
                  /\ exitCode = 0
        /\ (\A k \in 1..Len(responses) : ~ReturnedUnsealed(k)) => notifications = <<>>

\* C1's case: three keys, the second submission returns sealed=false.
SecondKeyUnseals ==
    /\ HealthSealed
    /\ cfg.nKeys = 3
    /\ Len(responses) = 2
    /\ ReturnedSealed(1)
    /\ ReturnedUnsealed(2)
    /\ submitted = <<1, 2>>
    /\ pc = "exited"

\* C2: when the initial health check returns sealed=false, runUnlock has
\* submitted no key, sent no notification and returned success.
AlreadyUnsealedNoOp ==
    (args = "unlock" /\ HealthUnsealed) =>
        /\ submitted = <<>>
        /\ responses = <<>>
        /\ notifications = <<>>
        /\ pc = "exited"
        /\ cmdErr = "nil"
        /\ exitCode = 0

\* C2's case: the health check answered 200 with sealed=false.
AlreadyUnsealedSeen ==
    /\ args = "unlock"
    /\ HealthUnsealed
    /\ health.body = "sealed_false"
    /\ pc = "exited"

\* C3: when the health check reports sealed=true and every one of the n
\* submissions returns sealed=true, all n keys have been submitted once each,
\* in order, no notification has been sent, and runUnlock has returned the
\* "still sealed after all keys" failure; no key is submitted beyond the n-th.
ExhaustionFails ==
    /\ Len(submitted) <= cfg.nKeys
    /\ (/\ HealthSealed
        /\ Len(responses) = cfg.nKeys
        /\ \A k \in 1..Len(responses) : ReturnedSealed(k))
       => /\ submitted = [k \in 1..cfg.nKeys |-> k]
          /\ notifications = <<>>
          /\ pc = "exited"
          /\ cmdErr = "vault still sealed after providing all keys"
          /\ exitCode = 1
    /\ cmdErr = "vault still sealed after providing all keys"
       => /\ Len(responses) = cfg.nKeys
          /\ \A k \in 1..Len(responses) : ReturnedSealed(k)

\* C3's case: three keys, all three submissions return sealed=true.
AllKeysExhausted ==
    /\ HealthSealed
    /\ cfg.nKeys = 3
    /\ Len(responses) = 3
    /\ \A k \in 1..3 : ReturnedSealed(k)
    /\ pc = "exited"

(***************************************************************************)
(* Properties of the audit monitor.                                        *)
(***************************************************************************)
\* The text of the lines the loop has received, in order.
DeliveredLines == [k \in 1..Len(delivered) |-> disk[delivered[k][1]][delivered[k][2]]]

Parses(line) == ~Unmarshal(line).err

RECURSIVE IntentsOf(_)
IntentsOf(lines) ==
    IF lines = <<>> THEN <<>>
    ELSE processAuditLine(Head(lines)) \o IntentsOf(Tail(lines))

ActiveEmbed == [title |-> "Vault Warden Active",
                desc |-> <<"Monitoring audit logs for Starnix cluster...">>,
                color |-> 3447003]
StoppedEmbed == [title |-> "Vault Warden Stopped",
                 desc |-> <<"Audit monitoring has been stopped.">>,
                 color |-> 9807270]

\* runAudit was entered / failed its start-up check / took the signal.
AuditEntered == args = "audit" /\ notifications # <<>>
AuditStartFailed == AuditEntered /\ tail.state = "none"
AuditStopped == AuditEntered /\ tail.state = "stopped"

\* What the server answered determines the result of the pass.
PassDone ==
    \/ health # NoHealth /\ ~HealthSealed
    \/ /\ responses # <<>>
       /\ \/ ~ReturnedSealed(Len(responses))
          \/ Len(responses) = cfg.nKeys

PassResult ==
    IF ~health.transport THEN "health check failed"
    ELSE IF ParseStatus(health.body).err THEN "parse health response"
    ELSE IF responses = <<>> THEN "nil"
    ELSE IF ~responses[Len(responses)].transport THEN "unseal request failed"
    ELSE IF ParseStatus(responses[Len(responses)].body).err THEN "parse unseal response"
    ELSE IF ReturnedSealed(Len(responses)) /\ Len(responses) = cfg.nKeys
         THEN "vault still sealed after providing all keys"
    ELSE "nil"

\* C4: whether a delivery succeeds or fails never changes the caller's
\* control flow.  The keys runUnlock submits, its result and exit status, and
\* the notification attempts it makes are the ones the server's responses
\* determine; the notification attempts of the audit loop are the ones the
\* received lines determine, and the loop is left only by the failed start-up
\* check or by the signal: none of them depends on what sendDiscord returned.
NotifierIsolation ==
    /\ (args = "unlock" /\ health # NoHealth) =>
          /\ submitted = [k \in 1..Len(responses) |-> k]
          /\ (pc = "exited") = PassDone
          /\ cmdErr = (IF PassDone THEN PassResult ELSE "nil")
          /\ exitCode = (IF ~PassDone THEN -1 ELSE IF PassResult = "nil" THEN 0 ELSE 1)
          /\ notifications =
                (IF responses # <<>> /\ ReturnedUnsealed(Len(responses))
                 THEN <<UnsealedEmbed>> ELSE <<>>)
    /\ AuditEntered =>
          /\ notifications =
                <<ActiveEmbed>> \o IntentsOf(DeliveredLines)
                    \o (IF AuditStopped THEN <<StoppedEmbed>> ELSE <<>>)
          /\ (pc = "running") = (~AuditStartFailed /\ ~AuditStopped)
          /\ cmdErr = (IF AuditStartFailed THEN "audit log not accessible" ELSE "nil")
          /\ exitCode = (IF AuditStartFailed THEN 1 ELSE IF AuditStopped THEN 0 ELSE -1)

\* C4's case: the last delivery for a line failed with a non-2xx answer, and
\* the loop is still running and has received the next line since.
FailedDeliveryAbsorbed ==
    /\ pc = "running"
    /\ notifyErr = "discord returned status"
    /\ Len(delivered) = 2
    /\ DeliveredLines[1] = BothLine
    /\ DeliveredLines[2] = GarbageLine
    /\ Len(notifications) = 3

\* C5: once a shutdown signal has arrived (it sits in sigChan), the loop
\* starts processing no further audit line.
ShutdownPriority == [][sigChan > 0 => delivered' = delivered]_vars

\* The lines appended since the follower captured its start offset, in the
\* order they were written: the rest of the file it started on, then every
\* file created at the path afterwards.
AppendedSince[f \in 0..(MaxRotations + 2)] ==
    IF f = 0 \/ f > Len(disk) \/ f < tail.startFile THEN <<>>
    ELSE [k \in 1..(Len(disk[f]) - (IF f = tail.startFile THEN tail.startOffset ELSE 0)) |->
              <<f, k + (IF f = tail.startFile THEN tail.startOffset ELSE 0)>>]
         \o AppendedSince[f + 1]

IsPrefix(s, t) == Len(s) <= Len(t) /\ \A k \in 1..Len(s) : s[k] = t[k]

\* C6: across a rotation, the lines handed to the audit loop are the lines
\* appended before the rotation followed by the lines written to the new
\* file, each once and none skipped.
RotationExactlyOnce ==
    IsPrefix(delivered \o [k \in 1..Len(lineCh) |-> <<lineCh[k].file, lineCh[k].idx>>],
             AppendedSince[tail.startFile])

\* The embeds a line that was in the log before the start would produce.
HistoryEmbeds == UNION {{processAuditLine(h)[k] : k \in 1..Len(processAuditLine(h))} : h \in HistoryLines}

\* C7: no line that was in the log before the monitor started is handed to
\* the audit loop, and none produces a notification.
NoHistoricalReplay ==
    /\ \A k \in 1..Len(delivered) : ~(delivered[k][1] = 1 /\ delivered[k][2] <= histLen)
    /\ \A k \in 1..Len(lineCh) : ~(lineCh[k].file = 1 /\ lineCh[k].idx <= histLen)
    /\ \A k \in 1..Len(notifications) : notifications[k] \notin HistoryEmbeds

\* C7's case: the log held a line at the start, and a line appended to the
\* same file afterwards has been received.
AppendedLineDelivered ==
    /\ histLen = 1
    /\ tail.startFile = 1
    /\ tail.startOffset = 1
    /\ delivered = <<<<1, 2>>>>
    /\ Len(notifications) = 3

\* C10: a line that does not parse produces no notification and no error and
\* leaves the monitor running: the notifications are those of the lines that
\* parse, as if the others had never been in the log, and the loop ends only
\* with the signal, without an error.
MalformedSkipped ==
    (AuditEntered /\ ~AuditStartFailed) =>
        /\ notifications =
              <<ActiveEmbed>> \o IntentsOf(SelectSeq(DeliveredLines, Parses))
                  \o (IF pc = "exited" THEN <<StoppedEmbed>> ELSE <<>>)
        /\ pc = "exited" => (sigChan = 0 /\ tail.state = "stopped")
        /\ cmdErr = "nil"
        /\ exitCode \in {-1, 0}

\* C10's case: a line that is not JSON, then a valid line, both received.
ValidAfterMalformed ==
    /\ pc = "running"
    /\ Len(delivered) = 2
    /\ DeliveredLines[1].kind = "garbage"
    /\ DeliveredLines[2].kind = "object"
    /\ Len(notifications) = 3

(***************************************************************************)
(* The classifier on every line up to the bounds: the monitor is running,  *)
(* one line has been appended and read, and the loop receives it.          *)
(***************************************************************************)
InitClassify ==
    /\ args = "audit"
    /\ cfg = [file |-> "ok", address |-> TRUE, nKeys |-> 1, webhook |-> TRUE, auditLog |-> TRUE]
    /\ pc = "running"
    /\ exitCode = -1
    /\ cmdErr = "nil"
    /\ mainMsg = ""
    /\ health = NoHealth
    /\ submitted = <<>>
    /\ responses = <<>>
    /\ notifications = <<Embed(TitleActive, DescActive, ColorActive)>>
    /\ notifyErr = "nil"
    /\ \/ \E p \in Paths, n \in Names, e \in Errors : disk = <<<<ObjectLine(p, n, e)>>>>
       \/ \E l \in {GarbageLine, MistypedLine} : disk = <<<<l>>>>
    /\ path = 1
    /\ histLen = 0
    /\ tail = [state |-> "reading", file |-> 1, offset |-> 1, startFile |-> 1, startOffset |-> 0]
    /\ lineCh = <<[file |-> 1, idx |-> 1, err |-> FALSE]>>
    /\ sigChan = 0
    /\ delivered = <<>>

NextClassify == ReceiveLine

SpecClassify == InitClassify /\ [][NextClassify]_vars

\* The path holds the pattern as a contiguous run.
HasRun(p, pat) ==
    \E i \in 1..Len(p) :
        /\ i + Len(pat) - 1 <= Len(p)
        /\ SubSeq(p, i, i + Len(pat) - 1) = pat

\* The notifications the received line produced.
LineNotes == SubSeq(notifications, 2, Len(notifications))
IsCritical(e) == e.color = 15158332
IsUnsealNote(e) == e.title = "Vault Unsealed"

\* C8: a record whose path contains "sign/root" or "database/creds/admin"
\* produces exactly one Critical "Privileged Access" notification carrying
\* the display name and the exact path, whatever the error text; a record
\* whose path contains neither produces no Critical notification.
PrivilegedAccessRule ==
    (delivered # <<>> /\ disk[1][1].kind = "object") =>
        LET rec == disk[1][1] IN
        IF HasRun(rec.path, <<"sign", "root">>) \/ HasRun(rec.path, <<"database", "creds", "admin">>)
        THEN SelectSeq(LineNotes, IsCritical) =
                <<[title |-> "SECURITY ALERT: Privileged Access",
                   desc |-> <<"User", rec.name, "Resource", rec.path>>,
                   color |-> 15158332]>>
        ELSE SelectSeq(LineNotes, IsCritical) = <<>>

\* C8's case: a failed request whose path holds both substrings.
PrivilegedFailedRequest ==
    /\ delivered # <<>>
    /\ disk[1][1].kind = "object"
    /\ disk[1][1].path = <<"database", "creds", "admin", "sign", "root">>
    /\ disk[1][1].error = "permission denied"
    /\ Len(LineNotes) = 1

\* C9: a record whose path contains "sys/unseal" produces the Info "Vault
\* Unsealed" notification if and only if its error text is empty; a record
\* whose path does not contain it produces none.
SuccessfulUnsealRule ==
    (delivered # <<>> /\ disk[1][1].kind = "object") =>
        LET rec == disk[1][1] IN
        IF HasRun(rec.path, <<"sys", "unseal">>) /\ rec.error = ""
        THEN SelectSeq(LineNotes, IsUnsealNote) = <<UnsealedEmbed>>
        ELSE SelectSeq(LineNotes, IsUnsealNote) = <<>>

\* C9's case: a sys/unseal request that failed has been processed.
FailedUnsealSilent ==
    /\ delivered # <<>>
    /\ disk[1][1].kind = "object"
    /\ disk[1][1].path = <<"sys", "unseal">>
    /\ disk[1][1].error = "permission denied"
    /\ LineNotes = <<>>

(***************************************************************************)
(* Shutdown and start-up of the audit monitor                              *)
(***************************************************************************)
\* A "stopped" notification has been sent.
StoppedSent == \E k \in 1..Len(notifications) : notifications[k] = StoppedEmbed

\* C11: when the loop takes the shutdown signal it sends the "monitor
\* stopped" notification exactly once, as the last notification of the run,
\* the tail's file handle is released and runAudit has returned without an
\* error (exit status 0); from then on no further line is received and no
\* further notification is sent.
ShutdownClean ==
    /\ [](\A k \in 1..Len(notifications) :
            notifications[k] = StoppedEmbed =>
                /\ k = Len(notifications)
                /\ k > 1
                /\ tail.state = "stopped"
                /\ tail.file = 0
                /\ pc = "exited"
                /\ cmdErr = "nil"
                /\ exitCode = 0)
    /\ [][StoppedSent => /\ delivered' = delivered
                         /\ notifications' = notifications]_vars

\* C11's case: the signal was taken after a line had been processed and
\* while another one was waiting in the channel.
StoppedWithLinePending ==
    /\ StoppedSent
    /\ delivered # <<>>
    /\ lineCh # <<>>
    /\ pc = "exited"

\* runAudit has been called and has got past its start-up sequence.
AuditStarted == args = "audit" /\ readConfig(cfg) = "nil" /\ pc \notin {"main", "runAudit"}

\* The configured audit log path named no file when runAudit started (the
\* files of the path only change while the loop is running).
MissingAtStart == disk = <<>> \/ ~cfg.auditLog

\* C12: runAudit sends the "monitor active" notification exactly once, and
\* as the first thing it does, so before any line is read or processed; when
\* the audit log path names no file at start-up, runAudit has returned the
\* "not accessible" error (exit status 1) with the tail never started and no
\* line read or processed.
StartupOrder ==
    /\ AuditStarted =>
          /\ notifications # <<>>
          /\ notifications[1] = ActiveEmbed
          /\ \A k \in 2..Len(notifications) : notifications[k] # ActiveEmbed
    /\ (args = "audit" /\ pc \in {"main", "runAudit"}) =>
          /\ notifications = <<>>
          /\ delivered = <<>>
          /\ lineCh = <<>>
          /\ tail = NoTail
    /\ (AuditStarted /\ MissingAtStart) =>
          /\ pc = "exited"
          /\ exitCode = 1
          /\ cmdErr = "audit log not accessible"
          /\ tail = NoTail
          /\ lineCh = <<>>
          /\ delivered = <<>>

\* C12's case: the configured path named no file, runAudit has returned.
StartFailedOnMissingLog ==
    /\ AuditStarted
    /\ cfg.auditLog
    /\ disk = <<>>
    /\ notifications = <<ActiveEmbed>>
    /\ pc = "exited"

(***************************************************************************)
(* Configuration and exit status                                           *)
(***************************************************************************)
\* One of the four configuration fields is missing or empty.
FieldMissing ==
    /\ cfg.file = "ok"
    /\ (~cfg.address \/ cfg.nKeys = 0 \/ ~cfg.webhook \/ ~cfg.auditLog)

\* C13: when the address, the unseal keys, the webhook URL or the audit log
\* path is missing or empty, the process ends with a non-zero exit status
\* before any component has run, in "unlock" and in "audit" mode alike: no
\* notification is sent, no health check or key submission is made and no
\* log file is opened.
ConfigPrecondition ==
    (args \in {"unlock", "audit"} /\ FieldMissing /\ pc # "main") =>
        /\ pc = "exited"
        /\ exitCode = 1
        /\ notifications = <<>>
        /\ health = NoHealth
        /\ submitted = <<>>
        /\ tail = NoTail

\* The errors runUnlock returns from its health check.
HealthErrors == {"health check failed", "parse health response"}

\* C14: the health check yields an error exactly when the request fails at
\* transport level or the body cannot be parsed, whatever the HTTP status
\* code of the answer (a sealed Vault answers 503, an unsealed one 200); on
\* such an error runUnlock has returned it with no key submitted and no
\* notification sent.
HealthReadTolerant ==
    (args = "unlock" /\ health # NoHealth) =>
        /\ (cmdErr \in HealthErrors) <=> (~health.transport \/ ParseStatus(health.body).err)
        /\ cmdErr \in HealthErrors =>
              /\ pc = "exited"
              /\ exitCode = 1
              /\ submitted = <<>>
              /\ responses = <<>>
              /\ notifications = <<>>

\* C14's case: the health check was answered 503 with sealed=true and
\* runUnlock went on to the key loop.
Sealed503Read ==
    /\ health.transport
    /\ health.code = 503
    /\ health.body = "sealed_true"
    /\ pc = "unsealLoop"
    /\ cmdErr = "nil"

\* The unlock pass found the Vault unsealed or unsealed it.
UnlockSucceeded ==
    /\ args = "unlock"
    /\ \/ HealthUnsealed
       \/ HealthSealed /\ responses # <<>> /\ ReturnedUnsealed(Len(responses))

\* C15: the exit status is 0 exactly when the "unlock" pass succeeded (Vault
\* already unsealed, or unsealed during the pass) or the "audit" monitor
\* ended on the shutdown signal; a missing mode, an unknown mode, a
\* configuration error, a failed unlock pass and a failed audit start-up all
\* end with a non-zero status, and with an unknown mode neither runUnlock nor
\* runAudit does anything.
ExitStatus ==
    /\ pc = "exited" =>
          /\ exitCode \in {0, 1}
          /\ (exitCode = 0) <=> (UnlockSucceeded \/ AuditStopped)
    /\ pc # "exited" => exitCode = -1
    /\ args \notin {"unlock", "audit"} =>
          /\ pc \in {"main", "exited"}
          /\ health = NoHealth
          /\ submitted = <<>>
          /\ notifications = <<>>
          /\ tail = NoTail
          /\ delivered = <<>>

\* C15's case: an unlock pass that ends still sealed, with exit status 1.
FailedPassExitsNonZero ==
    /\ args = "unlock"
    /\ HealthSealed
    /\ Len(responses) = cfg.nKeys
    /\ ReturnedSealed(Len(responses))
    /\ pc = "exited"
    /\ exitCode = 1

(***************************************************************************)
(* Every rule of the classifier is evaluated                               *)
(***************************************************************************)
\* C16: the classifier evaluates both rules on every record, not only the
\* first that matches: a record whose path holds a privileged substring and
\* "sys/unseal", with an empty error, produces two notifications, the
\* critical privileged-access alert first and the informational "Vault
\* Unsealed" second; no line produces more than two notifications.
EveryRuleEvaluated ==
    delivered # <<>> =>
        /\ Len(LineNotes) \in 0..2
        /\ (/\ disk[1][1].kind = "object"
            /\ HasRun(disk[1][1].path, PatSignRoot) \/ HasRun(disk[1][1].path, PatDbAdmin)
            /\ HasRun(disk[1][1].path, PatUnseal)
            /\ disk[1][1].error = "")
           => /\ Len(LineNotes) = 2
              /\ IsCritical(LineNotes[1])
              /\ LineNotes[1].title = "SECURITY ALERT: Privileged Access"
              /\ IsUnsealNote(LineNotes[2])
              /\ LineNotes[2].color = 3066993

\* C16's case: an admin database credential path that also holds
\* "sys/unseal", no error, two notifications.
BothRulesFired ==
    /\ delivered # <<>>
    /\ disk[1][1].kind = "object"
    /\ disk[1][1].path = <<"database", "creds", "admin", "sys", "unseal">>
    /\ disk[1][1].error = ""
    /\ Len(LineNotes) = 2

InitLive ==
    /\ Init
    /\ args = "audit"
    /\ readConfig(cfg) = "nil"
    /\ cfg.auditLog
    /\ disk = <<<<>>>>

NextLive ==
    \/ Main
    \/ RunAuditStart
    \/ ReceiveLine
    \/ ReceiveSignal
    \/ TailOpen
    \/ TailReadLine
    \/ TailEOF
    \/ TailPoll
    \/ TailReopen
    \/ Signal
    \/ AppendLine
    \/ RotateRename
    \/ RotateCreate

LiveSpec == InitLive /\ [][NextLive]_vars /\ WF_vars(ReceiveSignal)

\* C18: a signal delivered to the running loop leads to the loop taking it
\* and runAudit returning, whether lines keep arriving or none ever does:
\* every iteration of the loop offers the signal case and no iteration
\* blocks.
ShutdownLiveness ==
    (pc = "running" /\ sigChan > 0) ~> (pc = "exited" /\ StoppedSent /\ exitCode = 0)

\* C18's case: the monitor was stopped by the signal without any line ever
\* having been written to the log.
StoppedWithoutAnyLine ==
    /\ pc = "exited"
    /\ StoppedSent
    /\ Written = 0
    /\ delivered = <<>>

(***************************************************************************)
(* A failed key submission                                                 *)
(***************************************************************************)
\* The k-th submission failed at transport level or returned a body that
\* cannot be parsed.
SubmissionFailed(k) ==
    \/ ~responses[k].transport
    \/ ParseStatus(responses[k].body).err

\* C19: when the i-th submission fails at transport level or returns an
\* unparsable body, runUnlock has returned an error at once: it is the last
\* submission of the pass, keys 1..i have been submitted once each (none
\* again, none withdrawn), and no notification has been sent.
FailedSubmissionAborts ==
    \A i \in 1..Len(responses) :
        SubmissionFailed(i) =>
            /\ Len(responses) = i
            /\ submitted = [k \in 1..i |-> k]
            /\ \A k \in 1..(i - 1) : ReturnedSealed(k)
            /\ notifications = <<>>
            /\ pc = "exited"
            /\ exitCode = 1
            /\ cmdErr = IF ~responses[i].transport THEN "unseal request failed"
                        ELSE "parse unseal response"

\* C19's case: three keys, the first accepted with the Vault still sealed,
\* the second submission fails at transport level.
SecondSubmissionFailed ==
    /\ HealthSealed
    /\ cfg.nKeys = 3
    /\ Len(responses) = 2
    /\ ReturnedSealed(1)
    /\ ~responses[2].transport
    /\ pc = "exited"

(***************************************************************************)
(* The earlier runAudit (main.go 414-448, and the same loop in             *)
(* unnamed/part_000 58-92): the log is opened once, the cursor moved to    *)
(* its end, and a bufio.Reader read line by line in the same goroutine.    *)
(* The file is a sequence of appends: a whole line with its line break, or *)
(* the head of a line without one followed later by the rest of the line.  *)
(* tail.offset counts the appends the reader has consumed; delivered holds *)
(* the text of every string handed to json.Unmarshal.                      *)
(***************************************************************************)
Chunk(part, l) == [part |-> part, line |-> l]

\* The second part of a line read on its own: no JSON value.
Fragment == [kind |-> "fragment", path |-> <<>>, name |-> "", error |-> ""]

RECURSIVE WholeChunks(_)
WholeChunks(lines) ==
    IF lines = <<>> THEN <<>>
    ELSE <<Chunk("whole", Head(lines))>> \o WholeChunks(Tail(lines))

InitEarlier ==
    /\ args = "audit"
    /\ cfg = [file |-> "ok", address |-> TRUE, nKeys |-> 1, webhook |-> TRUE, auditLog |-> TRUE]
    /\ pc = "runAudit"
    /\ exitCode = -1
    /\ cmdErr = "nil"
    /\ mainMsg = ""
    /\ health = NoHealth
    /\ submitted = <<>>
    /\ responses = <<>>
    /\ notifications = <<>>
    /\ notifyErr = "none"
    /\ \E h \in SeqsUpTo(HistoryLines, MaxHistory) :
          \/ /\ disk = <<WholeChunks(h)>>
             /\ path = 1
             /\ histLen = Len(h)
          \/ /\ h = <<>>
             /\ disk = <<>>
             /\ path = 0
             /\ histLen = 0
    /\ tail = NoTail
    /\ lineCh = <<>>
    /\ sigChan = 0
    /\ delivered = <<>>

\* Lines 415-425: the "active" notification (this sendDiscord returns
\* nothing), os.Open, Seek to the end, bufio.NewReader. A failed Open
\* returns, and this main ends with status 0.
EarlierOpen ==
    /\ pc = "runAudit"
    /\ notifications' = Append(notifications, Embed(TitleActive, DescActive, ColorActive))
    /\ IF path = 0
       THEN Exit(0, "", "nil") /\ UNCHANGED tail
       ELSE /\ pc' = "reading"
            /\ tail' = [state |-> "reading", file |-> path, offset |-> Len(disk[path]),
                        startFile |-> path, startOffset |-> Len(disk[path])]
            /\ UNCHANGED <<exitCode, mainMsg, cmdErr>>
    /\ UNCHANGED <<mainVars, unlockVars, notifyErr, disk, path, histLen, lineCh, sigChan,
                   delivered>>

\* The string of a ReadString call that found a line break, handed to
\* json.Unmarshal and the two rules of lines 439-446 (the rules of
\* processAuditLine).
EarlierClassify(text, consumed) ==
    /\ tail' = [tail EXCEPT !.offset = @ + consumed]
    /\ delivered' = Append(delivered, text)
    /\ notifications' = notifications \o processAuditLine(text)

\* Lines 427-447, one iteration with something to read. ReadString returns
\* what it has read up to the line break; at the end of the file without a
\* line break it returns what it has read together with io.EOF, and line 429
\* drops that string, so the next call starts behind it.
EarlierReadString ==
    /\ pc = "reading"
    /\ tail.offset < Len(disk[tail.file])
    /\ LET f == disk[tail.file]
           c == f[tail.offset + 1]
       IN  IF c.part = "whole" THEN EarlierClassify(c.line, 1)
           ELSE IF c.part = "rest" THEN EarlierClassify(Fragment, 1)
           ELSE IF tail.offset + 2 <= Len(f) THEN EarlierClassify(c.line, 2)
           ELSE /\ tail' = [tail EXCEPT !.offset = @ + 1]
                /\ UNCHANGED <<delivered, notifications>>
    /\ UNCHANGED <<mainVars, unlockVars, pc, exitCode, mainMsg, cmdErr, notifyErr,
                   disk, path, histLen, lineCh, sigChan>>

\* The lines the writer has started since the monitor opened the log.
EarlierWritten ==
    Cardinality({k \in 1..Len(disk[1]) : k > histLen /\ disk[1][k].part # "rest"})

HeadPending == disk[1] # <<>> /\ disk[1][Len(disk[1])].part = "head"

\* The writer appends a line in one write.
AppendWhole ==
    /\ pc = "reading"
    /\ ~HeadPending
    /\ EarlierWritten < MaxWrites
    /\ \E l \in LogLines : disk' = [disk EXCEPT ![1] = Append(@, Chunk("whole", l))]
    /\ UNCHANGED <<mainVars, unlockVars, pc, exitCode, mainMsg, cmdErr, notifications,
                   notifyErr, path, histLen, tail, lineCh, sigChan, delivered>>

\* The writer appends the first part of a line, without its line break.
AppendHead ==
    /\ pc = "reading"
    /\ ~HeadPending
    /\ EarlierWritten < MaxWrites
    /\ \E l \in LogLines : disk' = [disk EXCEPT ![1] = Append(@, Chunk("head", l))]
    /\ UNCHANGED <<mainVars, unlockVars, pc, exitCode, mainMsg, cmdErr, notifications,
                   notifyErr, path, histLen, tail, lineCh, sigChan, delivered>>

\* The writer appends the rest of the line it has started, with the line
\* break.
AppendRest ==
    /\ pc = "reading"
    /\ HeadPending
    /\ disk' = [disk EXCEPT ![1] = Append(@, Chunk("rest", disk[1][Len(disk[1])].line))]
    /\ UNCHANGED <<mainVars, unlockVars, pc, exitCode, mainMsg, cmdErr, notifications,
                   notifyErr, path, histLen, tail, lineCh, sigChan, delivered>>

NextEarlier ==
    \/ EarlierOpen
    \/ EarlierReadString
    \/ AppendWhole
    \/ AppendHead
    \/ AppendRest

SpecEarlier == InitEarlier /\ [][NextEarlier]_vars

\* The lines completed in the log since the monitor opened it, in order.
RECURSIVE CompletedLines(_)
CompletedLines(chunks) ==
    IF chunks = <<>> THEN <<>>
    ELSE IF Head(chunks).part = "head" THEN CompletedLines(Tail(chunks))
    ELSE <<Head(chunks).line>> \o CompletedLines(Tail(chunks))

CompletedSinceOpen == CompletedLines(SubSeq(disk[1], histLen + 1, Len(disk[1])))

\* C20: a partial line is never delivered: every string handed to the
\* classifier is a whole line of the log, the lines are delivered in the
\* order they were completed, each once, and when the reader has caught up
\* with a log that ends in a line break, the notifications are those of the
\* completed lines, however many appends each line was written in.
PartialLineHeldBack ==
    pc = "reading" =>
        /\ IsPrefix(delivered, CompletedSinceOpen)
        /\ (tail.offset = Len(disk[1]) /\ ~HeadPending) =>
              /\ delivered = CompletedSinceOpen
              /\ notifications = <<ActiveEmbed>> \o IntentsOf(CompletedSinceOpen)

=============================================================================
